---------------------------- MODULE Spec2Model ----------------------------
(***************************************************************************)
(* Model of the histver tool (_script/histver): table rows and their CSV   *)
(* persistence (table part: merge, fromStrings, fromVersion, writeTable,   *)
(* readTable) and the synchronization driver (synver.go: main,             *)
(* getReleaseVersion, the zip / tar.gz extractors and the two probes).     *)
(*                                                                         *)
(* A Go string is a sequence of one-character strings; the empty Go        *)
(* string is << >>.                                                        *)
(***************************************************************************)
EXTENDS Integers, Sequences, FiniteSets, TLC

(***************************************************************************)
(* Bounds of the model.                                                    *)
(***************************************************************************)
\* longest table drawn as input of writeTable / readTable
MaxRows == 3
\* most entries of an archive handed to an extractor
MaxEntries == 3
\* most releases GitHub lists
MaxReleases == 2
\* most runs of main in a row
MaxRuns == 2

(***************************************************************************)
(* Go strings.                                                             *)
(***************************************************************************)
\* the bytes that occur in the model, in increasing byte order
Alphabet ==
  << "\n", " ", "\"", "(", ")", "*", ",", "-", ".", "/",
     "0", "1", "2", "3", "4", "5", "6", "7", "8", "9", ":", "@",
     "C", "D", "F", "R", "T", "U", "V",
     "a", "b", "c", "d", "e", "g", "h", "i", "k", "l", "m", "n", "o",
     "p", "r", "s", "t", "u", "v", "x", "y", "z" >>

Ord(c) == CHOOSE i \in DOMAIN Alphabet : Alphabet[i] = c

IsDigit(c) == c \in {"0", "1", "2", "3", "4", "5", "6", "7", "8", "9"}

\* Go's s[lo:hi] for 0 <= lo <= hi <= len(s)
Slice(s, lo, hi) == SubSeq(s, lo + 1, hi)

\* a > b on Go strings: bytewise lexicographic order
RECURSIVE StrGreater(_, _)
StrGreater(a, b) ==
  IF a = << >> THEN FALSE
  ELSE IF b = << >> THEN TRUE
  ELSE IF a[1] = b[1] THEN StrGreater(Tail(a), Tail(b))
  ELSE Ord(a[1]) > Ord(b[1])

\* strings.Count(s, c) for a one-byte c
RECURSIVE Count(_, _)
Count(s, c) ==
  IF s = << >> THEN 0
  ELSE (IF s[1] = c THEN 1 ELSE 0) + Count(Tail(s), c)

\* strings.Index(s, c) for a one-byte c: 0-based, -1 when absent
Index(s, c) ==
  IF \E i \in 1..Len(s) : s[i] = c
  THEN (CHOOSE i \in 1..Len(s) : s[i] = c /\ \A j \in 1..(i - 1) : s[j] # c) - 1
  ELSE -1

\* strings.LastIndex(s, c) for a one-byte c: 0-based, -1 when absent
LastIndex(s, c) ==
  IF \E i \in 1..Len(s) : s[i] = c
  THEN (CHOOSE i \in 1..Len(s) : s[i] = c /\ \A j \in (i + 1)..Len(s) : s[j] # c) - 1
  ELSE -1

\* strings.HasPrefix(s, p)
HasPrefix(s, p) == Len(s) >= Len(p) /\ SubSeq(s, 1, Len(p)) = p

\* strings.Trim(s, c) for a one-byte cutset: strips every leading and trailing c
RECURSIVE TrimLeft(_, _)
TrimLeft(s, c) ==
  IF s # << >> /\ s[1] = c THEN TrimLeft(Tail(s), c) ELSE s

RECURSIVE TrimRight(_, _)
TrimRight(s, c) ==
  IF s # << >> /\ s[Len(s)] = c THEN TrimRight(SubSeq(s, 1, Len(s) - 1), c) ELSE s

Trim(s, c) == TrimRight(TrimLeft(s, c), c)

\* cmp.Or(a, b) on strings: the first argument that is not the zero value
cmpOr(a, b) == IF a # << >> THEN a ELSE b

(***************************************************************************)
(* Table rows (table part).                                                *)
(***************************************************************************)
\* type tableRow struct { Version, Runtime, Date string }
tableRow(v, r, d) == [Version |-> v, Runtime |-> r, Date |-> d]

\* the zero value tableRow{}
zeroRow == tableRow(<< >>, << >>, << >>)

\* a plausible slip: the receiver's populated fields win over other's
mergeReceiverFirst(t, other) ==
  tableRow(cmpOr(t.Version, other.Version),
           cmpOr(t.Runtime, other.Runtime),
           cmpOr(t.Date, other.Date))

\* func (t tableRow) merge(other tableRow) tableRow
merge(t, other) ==
  tableRow(cmpOr(other.Version, t.Version),
           cmpOr(other.Runtime, t.Runtime),
           cmpOr(other.Date, t.Date))

\* func (r *tableRow) fromStrings(ss []string) error
fromStrings(ss) ==
  IF Len(ss) < 3 THEN [err |-> "not enough fields", row |-> zeroRow]
  ELSE [err |-> "nil",
        row |-> tableRow(Trim(ss[1], "*"), Trim(ss[2], "*"), Trim(ss[3], "*"))]

\* func (r tableRow) toStrings() []string
toStrings(r) == << r.Version, r.Runtime, r.Date >>

\* var tableHeader = []string{"Version", "Runtime", "Date"}
tableHeader ==
  << << "V", "e", "r", "s", "i", "o", "n" >>,
     << "R", "u", "n", "t", "i", "m", "e" >>,
     << "D", "a", "t", "e" >> >>

\* fmt.Sprintf("**%s**", s)
Bold(s) == << "*", "*" >> \o s \o << "*", "*" >>


\* a plausible slip: the comparison drops the version tie-break
lessDateOnly(x, y) == StrGreater(x.Date, y.Date)

\* the less function writeTable hands to sort.Slice
less(x, y) ==
  IF x.Date = y.Date THEN StrGreater(x.Version, y.Version)
  ELSE StrGreater(x.Date, y.Date)

swap(rows, i, j) == [rows EXCEPT ![i] = rows[j], ![j] = rows[i]]

\* the values of a Go string and of a []tableRow
GoString == Seq(STRING)

TableRowSlice == Seq([Version : GoString, Runtime : GoString, Date : GoString])

\* the variables of the two loops of the sort: the slice and a position
sinkState == [rows : TableRowSlice, j : Nat]

sortState == [rows : TableRowSlice, i : Nat]

\* sort.Slice on fewer than 12 elements is an insertion sort.  Its inner
\* loop: the element at position j sinks while it is less than its left
\* neighbour.
sink[st \in sinkState] ==
  IF st.j > 1 /\ less(st.rows[st.j], st.rows[st.j - 1])
  THEN sink[[rows |-> swap(st.rows, st.j, st.j - 1), j |-> st.j - 1]]
  ELSE st.rows

\* its outer loop: the elements from position i on are inserted in turn
sortFrom[st \in sortState] ==
  IF st.i > Len(st.rows) THEN st.rows
  ELSE sortFrom[[rows |-> sink[[rows |-> st.rows, j |-> st.i]], i |-> st.i + 1]]

\* sort.Slice(rows, less), lines 57-62 of the table part
sortSlice(rows) == sortFrom[[rows |-> rows, i |-> 2]]

\* runMinor of the emphasis loop: r.Runtime when it holds one dot, else
\* r.Runtime[:strings.LastIndex(r.Runtime, ".")]
runMinorOf(r) ==
  IF Count(r.Runtime, ".") = 1 THEN r.Runtime
  ELSE Slice(r.Runtime, 0, LastIndex(r.Runtime, "."))

\* synMinor of the emphasis loop: r.Version[:strings.LastIndex(r.Version, ".")]
synMinorOf(r) == Slice(r.Version, 0, LastIndex(r.Version, "."))

\* whether one of the two slice expressions panics on r: s[:-1] is out of range
slicePanics(r) ==
  \/ Count(r.Runtime, ".") # 1 /\ LastIndex(r.Runtime, ".") < 0
  \/ LastIndex(r.Version, ".") < 0

\* the variables of the emphasis loop of writeTable: rows, i, prevRunMinor
\* and prevSynMinor
emphasisState ==
  [rows : TableRowSlice, i : Int, prevRunMinor : GoString, prevSynMinor : GoString]

\* a plausible slip: the previous minor identifiers are never updated, so
\* every row is compared with the empty identifier
emphasizeStepNoUpdate(st) ==
  [rows |-> [st.rows EXCEPT ![st.i] =
               tableRow(IF synMinorOf(st.rows[st.i]) # st.prevSynMinor
                        THEN Bold(st.rows[st.i].Version) ELSE st.rows[st.i].Version,
                        IF runMinorOf(st.rows[st.i]) # st.prevRunMinor
                        THEN Bold(st.rows[st.i].Runtime) ELSE st.rows[st.i].Runtime,
                        st.rows[st.i].Date)],
   i |-> st.i - 1,
   prevRunMinor |-> st.prevRunMinor,
   prevSynMinor |-> st.prevSynMinor]

\* one pass of the emphasis loop of writeTable, on row i (lines 67-86): a
\* column is wrapped when its minor identifier differs from the previous one,
\* which then becomes the previous one
emphasizeStep(st) ==
  [rows |-> [st.rows EXCEPT ![st.i] =
               tableRow(IF synMinorOf(st.rows[st.i]) # st.prevSynMinor
                        THEN Bold(st.rows[st.i].Version) ELSE st.rows[st.i].Version,
                        IF runMinorOf(st.rows[st.i]) # st.prevRunMinor
                        THEN Bold(st.rows[st.i].Runtime) ELSE st.rows[st.i].Runtime,
                        st.rows[st.i].Date)],
   i |-> st.i - 1,
   prevRunMinor |-> IF runMinorOf(st.rows[st.i]) # st.prevRunMinor
                    THEN runMinorOf(st.rows[st.i]) ELSE st.prevRunMinor,
   prevSynMinor |-> IF synMinorOf(st.rows[st.i]) # st.prevSynMinor
                    THEN synMinorOf(st.rows[st.i]) ELSE st.prevSynMinor]

\* the emphasis loop of writeTable, for i := len(rows) - 1; i >= 0; i-- (here
\* i runs from Len(rows) down to 1)
emphasize[st \in emphasisState] ==
  IF st.i < 1 THEN [panic |-> FALSE, rows |-> st.rows]
  ELSE IF slicePanics(st.rows[st.i]) THEN [panic |-> TRUE, rows |-> st.rows]
  ELSE emphasize[emphasizeStep(st)]

\* csv.Writer.Write of one record: the fields joined by commas.  No field of
\* the model holds a comma, a quote or a line break, so none is quoted.
RECURSIVE csvJoin(_)
csvJoin(ss) ==
  IF ss = << >> THEN << >>
  ELSE IF Len(ss) = 1 THEN ss[1]
  ELSE ss[1] \o << "," >> \o csvJoin(Tail(ss))

\* csv.Reader.Read of one line: the line split at its commas
RECURSIVE csvSplit(_)
csvSplit(line) ==
  LET idx == Index(line, ",")
  IN  IF idx < 0 THEN << line >>
      ELSE << Slice(line, 0, idx) >> \o csvSplit(Slice(line, idx + 1, Len(line)))

RECURSIVE writeRows(_)
writeRows(rows) ==
  IF rows = << >> THEN << >>
  ELSE << csvJoin(toStrings(Head(rows))) >> \o writeRows(Tail(rows))

\* func writeTable(w io.Writer, rows []tableRow) error.  The result is the
\* lines written; a panic in the emphasis loop happens before the first line
\* is written.
writeTable(rows) ==
  LET e == emphasize[[rows |-> sortSlice(rows), i |-> Len(rows),
                      prevRunMinor |-> << >>, prevSynMinor |-> << >>]]
  IN  IF e.panic THEN [panic |-> TRUE, lines |-> << >>]
      ELSE [panic |-> FALSE, lines |-> << csvJoin(tableHeader) >> \o writeRows(e.rows)]

\* the loop of readTable over the records of the file.  nfields is the
\* csv.Reader's FieldsPerRecord, set by the first record (0: not yet set);
\* the reader skips empty lines.
RECURSIVE readRecords(_, _, _)
readRecords(lines, nfields, rows) ==
  IF lines = << >> THEN [err |-> "nil", rows |-> rows]
  ELSE IF Head(lines) = << >> THEN readRecords(Tail(lines), nfields, rows)
  ELSE
    LET ss == csvSplit(Head(lines))
    IN  IF nfields # 0 /\ Len(ss) # nfields
        THEN [err |-> "wrong number of fields", rows |-> << >>]
        ELSE IF ss[1] = tableHeader[1] THEN readRecords(Tail(lines), Len(ss), rows)
        ELSE LET fs == fromStrings(ss)
             IN  IF fs.err # "nil" THEN [err |-> fs.err, rows |-> << >>]
                 ELSE readRecords(Tail(lines), Len(ss), Append(rows, fs.row))

\* func readTable(r io.Reader) ([]tableRow, error)
readTable(lines) == readRecords(lines, 0, << >>)

(***************************************************************************)
(* String literals of synver.go and of the inputs of the model.            *)
(***************************************************************************)
\* "syncthing"
sSyncthing ==
  << "s", "y", "n", "c", "t", "h", "i", "n", "g" >>

\* "syncthing ", the literal prefix of the pattern of fromVersion
sSyncthingSp ==
  << "s", "y", "n", "c", "t", "h", "i", "n", "g", " " >>

\* "darwin"
sDarwin ==
  << "d", "a", "r", "w", "i", "n" >>

\* "macos"
sMacos ==
  << "m", "a", "c", "o", "s" >>

\* "linux"
sLinux ==
  << "l", "i", "n", "u", "x" >>

\* runtime.GOARCH of the host: "amd64"
GOARCH ==
  << "a", "m", "d", "6", "4" >>

\* ".zip"
sZipExt ==
  << ".", "z", "i", "p" >>

\* "v1.2.0"
v120 ==
  << "v", "1", ".", "2", ".", "0" >>

\* "v1.2.1"
v121 ==
  << "v", "1", ".", "2", ".", "1" >>

\* "v1.3.0"
v130 ==
  << "v", "1", ".", "3", ".", "0" >>

\* "v1.3.1"
v131 ==
  << "v", "1", ".", "3", ".", "1" >>

\* "v1.10.0"
v1100 ==
  << "v", "1", ".", "1", "0", ".", "0" >>

\* "nightly"
sNightly ==
  << "n", "i", "g", "h", "t", "l", "y" >>

\* "go1.2"
go12 ==
  << "g", "o", "1", ".", "2" >>

\* "go1.15.5"
go1155 ==
  << "g", "o", "1", ".", "1", "5", ".", "5" >>

\* "go1.15.8"
go1158 ==
  << "g", "o", "1", ".", "1", "5", ".", "8" >>

\* "go1.16.2"
go1162 ==
  << "g", "o", "1", ".", "1", "6", ".", "2" >>

\* "2021-01-01"
d20210101 ==
  << "2", "0", "2", "1", "-", "0", "1", "-", "0", "1" >>

\* "2021-02-01"
d20210201 ==
  << "2", "0", "2", "1", "-", "0", "2", "-", "0", "1" >>

\* "2021-03-01"
d20210301 ==
  << "2", "0", "2", "1", "-", "0", "3", "-", "0", "1" >>

(***************************************************************************)
(* fromVersion: the pattern                                                *)
(*   syncthing (v\d+\.\d+\.\d+).*(go\d+\.\d+(?:\.\d+)?).*(\d{4}-\d{2}-\d{2})  *)
(* followed by a space, matched leftmost-first with greedy repetitions.    *)
(* Positions are 1-based; an end position of 0 means no match.             *)
(***************************************************************************)
\* the last position of the longest run of digits that starts at position i
\* (i - 1 when s[i] is no digit)
RECURSIVE DigitsEnd(_, _)
DigitsEnd(s, i) ==
  IF i <= Len(s) /\ IsDigit(s[i]) THEN DigitsEnd(s, i + 1) ELSE i - 1

\* whether s holds the one-byte c at position i
At(s, i, c) == i >= 1 /\ i <= Len(s) /\ s[i] = c

\* \.\d+ right after position e: the end of the greedy match, 0 if none or
\* if e is 0
DotDigits(s, e) ==
  IF e # 0 /\ At(s, e + 1, ".") /\ DigitsEnd(s, e + 2) >= e + 2
  THEN DigitsEnd(s, e + 2) ELSE 0

\* v\d+ at position i: the end of the greedy match, 0 if none
VDigits(s, i) ==
  IF At(s, i, "v") /\ DigitsEnd(s, i + 1) >= i + 1 THEN DigitsEnd(s, i + 1) ELSE 0

\* v\d+\.\d+\.\d+ at position i: the end of the greedy match, 0 if none
MatchSemver(s, i) == DotDigits(s, DotDigits(s, VDigits(s, i)))

\* go\d+ at position i: the end of the greedy match, 0 if none
GoDigits(s, i) ==
  IF At(s, i, "g") /\ At(s, i + 1, "o") /\ DigitsEnd(s, i + 2) >= i + 2
  THEN DigitsEnd(s, i + 2) ELSE 0

\* the positions hi, hi - 1, ..., lo as a sequence
Desc(hi, lo) == [k \in 1..(hi - lo + 1) |-> hi - k + 1]

\* go\d+\.\d+(?:\.\d+)? whose go\d+ ends at e1 and whose greedy \.\d+ ends
\* at e2: the possible ends of a match, in the order the matcher prefers them
\* (with the optional part, longest first; then without it, longest first)
GoEndsFrom(s, e1, e2) ==
  IF e2 = 0 THEN << >>
  ELSE (IF DotDigits(s, e2) # 0 THEN Desc(DotDigits(s, e2), e2 + 2) ELSE << >>)
         \o Desc(e2, e1 + 2)

\* go\d+\.\d+(?:\.\d+)? at position i: its possible ends, in preference order
GoEnds(s, i) == GoEndsFrom(s, GoDigits(s, i), DotDigits(s, GoDigits(s, i)))

\* \d{4}-\d{2}-\d{2} followed by a space, at position i
MatchDate(s, i) ==
  /\ i >= 1 /\ i + 10 <= Len(s)
  /\ \A k \in {0, 1, 2, 3, 5, 6, 8, 9} : IsDigit(s[i + k])
  /\ s[i + 4] = "-" /\ s[i + 7] = "-" /\ s[i + 10] = " "

\* .* matches s[lo..hi]: any bytes but a line break
Dots(s, lo, hi) == \A k \in lo..hi : s[k] # "\n"

\* the greatest element of a set of positions, 0 for the empty set
Last(S) == IF S = {} THEN 0 ELSE CHOOSE i \in S : \A j \in S : j <= i

\* the last position from lo on where a date followed by a space starts, with
\* only .* between lo and it; 0 if none
LastDate(s, lo) == Last({i \in lo..Len(s) : MatchDate(s, i) /\ Dots(s, lo, i - 1)})

\* the first end in ends (a sequence in preference order) after which a date
\* still follows, 0 if none
RECURSIVE FirstEndWithDate(_, _)
FirstEndWithDate(s, ends) ==
  IF ends = << >> THEN 0
  ELSE IF LastDate(s, Head(ends) + 1) # 0 THEN Head(ends)
  ELSE FirstEndWithDate(s, Tail(ends))

\* the end of group 1 when the pattern is matched from position p, 0 if none
VersionEnd(s, p) ==
  IF HasPrefix(SubSeq(s, p, Len(s)), sSyncthingSp)
  THEN MatchSemver(s, p + Len(sSyncthingSp)) ELSE 0

\* the last start of group 2 after position ve from which the rest of the
\* pattern still matches, 0 if none
RuntimeStart(s, ve) ==
  Last({q \in (ve + 1)..Len(s) :
          Dots(s, ve + 1, q - 1) /\ FirstEndWithDate(s, GoEnds(s, q)) # 0})

\* the three groups, given the end of group 1, the start and the end of
\* group 2 and the start of group 3
Groups(s, p, ve, gq, ge, dq) ==
  << SubSeq(s, p + Len(sSyncthingSp), ve), SubSeq(s, gq, ge), SubSeq(s, dq, dq + 9) >>

\* the submatches with group 2 starting at gq and ending at ge
MatchWithRuntime(s, p, ve, gq, ge) ==
  [ok |-> TRUE, m |-> Groups(s, p, ve, gq, ge, LastDate(s, ge + 1))]

\* the submatches with group 1 ending at ve and group 2 starting at gq
MatchWithVersion(s, p, ve, gq) ==
  IF ve = 0 \/ gq = 0 THEN [ok |-> FALSE, m |-> << >>]
  ELSE MatchWithRuntime(s, p, ve, gq, FirstEndWithDate(s, GoEnds(s, gq)))

\* the submatches of the pattern when it is matched from position p
MatchFrom(s, p) ==
  MatchWithVersion(s, p, VersionEnd(s, p),
                   IF VersionEnd(s, p) = 0 THEN 0
                   ELSE RuntimeStart(s, VersionEnd(s, p)))

\* the first position from which the pattern matches, 0 if none
RECURSIVE FirstMatch(_, _)
FirstMatch(s, p) ==
  IF p > Len(s) THEN 0
  ELSE IF VersionEnd(s, p) # 0 /\ RuntimeStart(s, VersionEnd(s, p)) # 0 THEN p
  ELSE FirstMatch(s, p + 1)

\* exp.FindStringSubmatch(ver): the leftmost match
FindStringSubmatch(s) ==
  IF FirstMatch(s, 1) = 0 THEN [ok |-> FALSE, m |-> << >>]
  ELSE MatchFrom(s, FirstMatch(s, 1))

\* func (r *tableRow) fromVersion(ver string) error
\* the row fromVersion fills from the submatches m
rowOfMatch(m) == tableRow(m[1], m[2], m[3])

fromVersion(ver) ==
  IF ~FindStringSubmatch(ver).ok
  THEN [err |-> "failed to parse version", row |-> zeroRow]
  ELSE [err |-> "nil", row |-> rowOfMatch(FindStringSubmatch(ver).m)]

(***************************************************************************)
(* synver.go: the probes, the extractors and the resolver.                 *)
(*                                                                         *)
(* What the outside world does is an input.  A release carries its assets; *)
(* an asset carries its archive (format and entries); every executable     *)
(* entry behaves as the release's binary bin does: bin.cmd is what running *)
(* it with --version gives, bin.gover what "go version -m" gives on it     *)
(* (each [err, out]).  fault names the one I/O step that fails in a call   *)
(* ("none": no step fails); a failing step returns at once, so at most one *)
(* failure is ever observed in a call.                                     *)
(***************************************************************************)
\* what a call that never reached the probe reports about it
noProbe == [created |-> FALSE, left |-> FALSE, ran |-> << >>, entry |-> << >>]

\* func getVersionFromCommand(name string) (tableRow, error)
getVersionFromCommand(bin) ==
  IF bin.cmd.err THEN [err |-> "exec", row |-> zeroRow]
  ELSE LET f == fromVersion(bin.cmd.out)
       IN  IF f.err # "nil" THEN [err |-> f.err, row |-> zeroRow] ELSE f

\* func getVersionFromGo(name string) (tableRow, error)
getVersionFromGo(bin) ==
  IF bin.gover.err THEN [err |-> "exec", row |-> zeroRow]
  ELSE
    LET nl == Index(bin.gover.out, "\n")
        line == Slice(bin.gover.out, 0, nl)
        sp == LastIndex(line, " ")
    IN  IF nl < 0 THEN [err |-> "no version", row |-> zeroRow]
        ELSE IF sp < 0 THEN [err |-> "no version", row |-> zeroRow]
        ELSE [err |-> "nil",
              row |-> tableRow(<< >>, Slice(line, sp + 1, Len(line)), << >>)]

\* a plausible slip: the results of the two strategies are combined
getVersionFromReaderCombining(bin, fault) ==
  IF fault = "createtemp"
  THEN [err |-> "createtemp", row |-> zeroRow] @@ noProbe
  ELSE IF fault = "copy"
  THEN [err |-> "copy", row |-> zeroRow, created |-> TRUE, left |-> TRUE,
        ran |-> << >>, entry |-> << >>]
  ELSE IF fault = "chmod"
  THEN [err |-> "chmod", row |-> zeroRow, created |-> TRUE, left |-> FALSE,
        ran |-> << >>, entry |-> << >>]
  ELSE
    LET c == getVersionFromCommand(bin)
        g == getVersionFromGo(bin)
    IN  IF c.err = "nil" /\ g.err = "nil"
        THEN [err |-> "nil", row |-> c.row @@ [Runtime |-> g.row.Runtime],
              created |-> TRUE, left |-> FALSE,
              ran |-> << "command", "go" >>, entry |-> << >>]
        ELSE IF c.err = "nil"
        THEN c @@ [created |-> TRUE, left |-> FALSE, ran |-> << "command" >>,
                   entry |-> << >>]
        ELSE g @@ [created |-> TRUE, left |-> FALSE,
                   ran |-> << "command", "go" >>, entry |-> << >>]

\* func getVersionFromReader(r io.Reader) (tableRow, error).
\*   created: os.CreateTemp made a file;  left: the file still exists when
\*   the call returns;  ran: the strategies run, in order.
\* os.Remove is deferred only after io.Copy has succeeded.
getVersionFromReader(bin, fault) ==
  IF fault = "createtemp"
  THEN [err |-> "createtemp", row |-> zeroRow] @@ noProbe
  ELSE IF fault = "copy"
  THEN [err |-> "copy", row |-> zeroRow, created |-> TRUE, left |-> TRUE,
        ran |-> << >>, entry |-> << >>]
  ELSE IF fault = "chmod"
  THEN [err |-> "chmod", row |-> zeroRow, created |-> TRUE, left |-> FALSE,
        ran |-> << >>, entry |-> << >>]
  ELSE
    LET c == getVersionFromCommand(bin)
    IN  IF c.err = "nil"
        THEN c @@ [created |-> TRUE, left |-> FALSE, ran |-> << "command" >>,
                   entry |-> << >>]
        ELSE getVersionFromGo(bin) @@
               [created |-> TRUE, left |-> FALSE, ran |-> << "command", "go" >>,
                entry |-> << >>]

\* strings.Contains(s, c) for a one-byte c
Contains(s, c) == Index(s, c) >= 0

\* path.Dir(p) for a clean slash-separated name (no empty, "." or ".."
\* element): what precedes the last slash, "." when there is none
pathDir(p) ==
  LET i == LastIndex(p, "/")
  IN  IF i < 0 THEN << "." >>
      ELSE IF TrimRight(Slice(p, 0, i), "/") = << >> THEN << "/" >>
      ELSE TrimRight(Slice(p, 0, i), "/")

\* path.Base(p): the last element of p, trailing slashes dropped
pathBase(p) ==
  IF p = << >> THEN << "." >>
  ELSE LET q == TrimRight(p, "/")
           i == LastIndex(q, "/")
       IN  IF q = << >> THEN << "/" >> ELSE Slice(q, i + 1, Len(q))

\* filepath.Ext(name): from the last dot of the last element on, or ""
filepathExt(name) ==
  LET i == LastIndex(name, ".")
  IN  IF i >= 0 /\ i > LastIndex(name, "/") THEN Slice(name, i, Len(name)) ELSE << >>

\* a plausible slip: the test for nesting is dropped, any depth is accepted
RECURSIVE scanZipAnyDepth(_, _, _)
scanZipAnyDepth(entries, bin, fault) ==
  IF entries = << >>
  THEN [err |-> "no syncthing binary found", row |-> zeroRow] @@ noProbe
  ELSE IF pathBase(Head(entries)) # sSyncthing
  THEN scanZipAnyDepth(Tail(entries), bin, fault)
  ELSE IF fault = "open"
  THEN [err |-> "open", row |-> zeroRow] @@ [noProbe EXCEPT !.entry = Head(entries)]
  ELSE [getVersionFromReader(bin, fault) EXCEPT !.entry = Head(entries)]

\* the loop of getReleaseVersionZip over zr.File
RECURSIVE scanZip(_, _, _)
scanZip(entries, bin, fault) ==
  IF entries = << >>
  THEN [err |-> "no syncthing binary found", row |-> zeroRow] @@ noProbe
  ELSE IF Contains(pathDir(Head(entries)), "/") THEN scanZip(Tail(entries), bin, fault)
  ELSE IF pathBase(Head(entries)) # sSyncthing THEN scanZip(Tail(entries), bin, fault)
  ELSE IF fault = "open"
  THEN [err |-> "open", row |-> zeroRow] @@ [noProbe EXCEPT !.entry = Head(entries)]
  ELSE [getVersionFromReader(bin, fault) EXCEPT !.entry = Head(entries)]

\* func getReleaseVersionZip(bs []byte) (tableRow, error)
getReleaseVersionZip(bs, bin, fault) ==
  IF bs.format # "zip" THEN [err |-> "zip", row |-> zeroRow] @@ noProbe
  ELSE scanZip(bs.entries, bin, fault)

\* the loop of getReleaseVersionTarGz over tr.Next()
RECURSIVE scanTar(_, _, _)
scanTar(entries, bin, fault) ==
  IF entries = << >>
  THEN [err |-> "no syncthing binary found", row |-> zeroRow] @@ noProbe
  ELSE IF pathBase(Head(entries)) # sSyncthing THEN scanTar(Tail(entries), bin, fault)
  ELSE [getVersionFromReader(bin, fault) EXCEPT !.entry = Head(entries)]

\* func getReleaseVersionTarGz(bs []byte) (tableRow, error)
getReleaseVersionTarGz(bs, bin, fault) ==
  IF bs.format # "targz" THEN [err |-> "gzip", row |-> zeroRow] @@ noProbe
  ELSE scanTar(bs.entries, bin, fault)

\* rel.GetCreatedAt().Format("2006-01-01"): the layout names the year and then
\* the month twice ("01" is the month, "02" would be the day)
FormatCreatedAt(t) == t.year \o << "-" >> \o t.month \o << "-" >> \o t.month

\* the seed row of getReleaseVersion
seedRow(rel) == tableRow(rel.TagName, << >>, FormatCreatedAt(rel.CreatedAt))

\* fmt.Sprintf("syncthing-%s-%s", goos, runtime.GOARCH), darwin named macos
findPrefix(goos) ==
  sSyncthing \o << "-" >> \o (IF goos = sDarwin THEN sMacos ELSE goos)
    \o << "-" >> \o GOARCH

\* the loop of getReleaseVersion over rel.Assets: the first asset whose name
\* has the prefix decides the call
RECURSIVE scanAssets(_, _, _, _, _)
scanAssets(assets, row, find, bin, fault) ==
  IF assets = << >>
  THEN [err |-> "no asset found", row |-> zeroRow, probe |-> zeroRow] @@ noProbe
  ELSE IF ~HasPrefix(Head(assets).Name, find)
  THEN scanAssets(Tail(assets), row, find, bin, fault)
  ELSE IF fault = "get"
  THEN [err |-> "get", row |-> zeroRow, probe |-> zeroRow] @@ noProbe
  ELSE IF fault = "read"
  THEN [err |-> "read", row |-> zeroRow, probe |-> zeroRow] @@ noProbe
  ELSE
    LET r == IF filepathExt(Head(assets).Name) = sZipExt
             THEN getReleaseVersionZip(Head(assets).bs, bin, fault)
             ELSE getReleaseVersionTarGz(Head(assets).bs, bin, fault)
    IN  IF r.err # "nil" THEN [r EXCEPT !.row = zeroRow] @@ [probe |-> zeroRow]
        ELSE [r EXCEPT !.row = merge(row, r.row)] @@ [probe |-> r.row]

\* func getReleaseVersion(rel *github.RepositoryRelease) (tableRow, error).
\*   probe: the row the extractor and the probe returned;  entry: the archive
\*   entry handed to the probe.
getReleaseVersion(rel, goos, fault) ==
  scanAssets(rel.Assets, seedRow(rel), findPrefix(goos), rel.bin, fault)

(***************************************************************************)
(* Inputs: what the binaries print, the archives, the releases.            *)
(***************************************************************************)
\* the --version banner of a v1.2.0 binary built with go1.15.5 on 2021-01-10
banner120 ==
  << "s", "y", "n", "c", "t", "h", "i", "n", "g", " ", "v", "1", ".", "2",
     ".", "0", " ", "\"", "x", "\"", " ", "(", "g", "o", "1", ".", "1", "5",
     ".", "5", " ", "l", "i", "n", "u", "x", "-", "a", "m", "d", "6", "4",
     ")", " ", "b", "@", "s", " ", "2", "0", "2", "1", "-", "0", "1", "-",
     "1", "0", " ", "0", "3", ":", "3", "0", ":", "1", "7", " ", "U", "T",
     "C", "\n" >>

\* the banner of a v1.3.0-rc.1 binary built with go1.16.2 on 2021-02-20
banner130rc ==
  << "s", "y", "n", "c", "t", "h", "i", "n", "g", " ", "v", "1", ".", "3",
     ".", "0", "-", "r", "c", ".", "1", " ", "\"", "x", "\"", " ", "(", "g",
     "o", "1", ".", "1", "6", ".", "2", " ", "l", "i", "n", "u", "x", "-",
     "a", "m", "d", "6", "4", ")", " ", "b", "@", "s", " ", "2", "0", "2",
     "1", "-", "0", "2", "-", "2", "0", " ", "0", "3", ":", "3", "0", ":",
     "1", "7", " ", "U", "T", "C", "\n" >>

\* output that is no banner
garbageOut ==
  << "u", "s", "a", "g", "e", ":", " ", "s", "y", "n", "c", "t", "h", "i",
     "n", "g", "\n" >>

\* "go version -m": the first line ends in the runtime version
goverOut ==
  << "f", ":", " ", "g", "o", "1", ".", "1", "6", ".", "2", "\n", "p", "a",
     "t", "h", " ", "x", "\n" >>

\* output without a line break
goverNoNewline ==
  << "f", ":", " ", "g", "o", "1", ".", "1", "6", ".", "2" >>

\* a first line without a space
goverNoSpace ==
  << "g", "o", "1", ".", "1", "6", ".", "2", "\n" >>

\* "syncthing-linux-amd64-v1.tar.gz"
nameLinuxTarGz ==
  << "s", "y", "n", "c", "t", "h", "i", "n", "g", "-", "l", "i", "n", "u",
     "x", "-", "a", "m", "d", "6", "4", "-", "v", "1", ".", "t", "a", "r",
     ".", "g", "z" >>

\* "syncthing-macos-amd64-v1.zip"
nameMacosZip ==
  << "s", "y", "n", "c", "t", "h", "i", "n", "g", "-", "m", "a", "c", "o",
     "s", "-", "a", "m", "d", "6", "4", "-", "v", "1", ".", "z", "i", "p" >>

\* "syncthing-linux-amd64-v1.zip"
nameLinuxZip ==
  << "s", "y", "n", "c", "t", "h", "i", "n", "g", "-", "l", "i", "n", "u",
     "x", "-", "a", "m", "d", "6", "4", "-", "v", "1", ".", "z", "i", "p" >>

\* "syncthing-source-v1.tar.gz"
nameSource ==
  << "s", "y", "n", "c", "t", "h", "i", "n", "g", "-", "s", "o", "u", "r",
     "c", "e", "-", "v", "1", ".", "t", "a", "r", ".", "g", "z" >>

\* archive entries: "syncthing" at the root
eTop ==
  << "s", "y", "n", "c", "t", "h", "i", "n", "g" >>

\* "bin/syncthing"
eBin ==
  << "b", "i", "n", "/", "s", "y", "n", "c", "t", "h", "i", "n", "g" >>

\* "st/bin/syncthing"
eDeep ==
  << "s", "t", "/", "b", "i", "n", "/", "s", "y", "n", "c", "t", "h", "i",
     "n", "g" >>

\* "st/README"
eReadme ==
  << "s", "t", "/", "R", "E", "A", "D", "M", "E" >>

\* "bin/"
eDir ==
  << "b", "i", "n", "/" >>

\* "st/syncthing"
eInDir ==
  << "s", "t", "/", "s", "y", "n", "c", "t", "h", "i", "n", "g" >>

\* "2021"
y2021 ==
  << "2", "0", "2", "1" >>

\* "01"
m01 ==
  << "0", "1" >>

\* "03"
m03 ==
  << "0", "3" >>

\* "15"
day15 ==
  << "1", "5" >>

\* "02"
day02 ==
  << "0", "2" >>

\* what running a binary with --version gives
CmdResults ==
  { [err |-> TRUE, out |-> << >>],
    [err |-> FALSE, out |-> banner120],
    [err |-> FALSE, out |-> banner130rc],
    [err |-> FALSE, out |-> garbageOut] }

\* what "go version -m" gives on a binary: an error, the tool's report (the
\* file name, a colon, a space and the toolchain version, which the tool
\* never leaves empty, then the module lines), or output cut short
GoverResults ==
  { [err |-> TRUE, out |-> << >>],
    [err |-> FALSE, out |-> goverOut],
    [err |-> FALSE, out |-> goverNoNewline],
    [err |-> FALSE, out |-> goverNoSpace] }

Bins == [cmd : CmdResults, gover : GoverResults]

\* the I/O step that fails in a call of getReleaseVersion
Faults == {"none", "get", "read", "open", "createtemp", "copy", "chmod"}

\* the I/O step that fails in a call of an extractor
ExtractFaults == {"none", "open", "createtemp", "copy", "chmod"}

Formats == {"zip", "targz", "corrupt"}

EntryNames == {eTop, eBin, eDeep, eReadme, eDir}

\* the rows tables are drawn from: the three releases of a minor-series
\* example, date ties, an old-style runtime, a version that sorts
\* lexicographically below its predecessors, and rows with an empty or
\* dotless field
TableRows ==
  { tableRow(v120, go1155, d20210101),
    tableRow(v121, go1158, d20210201),
    tableRow(v130, go1162, d20210301),
    tableRow(v121, go12, d20210101),
    tableRow(v131, go1162, d20210301),
    tableRow(v1100, go12, d20210301),
    tableRow(v131, go1158, << >>),
    tableRow(v130, << >>, d20210201),
    tableRow(<< >>, go1155, d20210201),
    tableRow(sNightly, go1162, d20210101) }

\* the sequences of at most n elements of S
SeqsUpTo(S, n) == UNION {[1..k -> S] : k \in 0..n}

\* those of them without a repeated element
DistinctSeqs(S, n) ==
  {q \in SeqsUpTo(S, n) : \A i, j \in 1..Len(q) : i # j => q[i] # q[j]}

\* the field values rows are merged from
MergeRows ==
  [Version : {<< >>, v120, v130}, Runtime : {<< >>, go1155, go1162},
   Date : {<< >>, d20210101, d20210301}]

\* the assets of a release: name and archive
asset(name, format, entries) ==
  [Name |-> name, bs |-> [format |-> format, entries |-> entries]]

assetLinuxTarGz == asset(nameLinuxTarGz, "targz", << eReadme, eInDir >>)
assetMacosZip == asset(nameMacosZip, "zip", << eReadme, eInDir >>)
assetLinuxZipCorrupt == asset(nameLinuxZip, "corrupt", << >>)
assetLinuxNoBinary == asset(nameLinuxTarGz, "targz", << eReadme >>)
assetSource == asset(nameSource, "targz", << eReadme >>)

AssetLists ==
  { << >>,
    << assetSource, assetMacosZip >>,
    << assetSource, assetLinuxTarGz, assetMacosZip >>,
    << assetLinuxZipCorrupt, assetLinuxTarGz, assetMacosZip >>,
    << assetLinuxNoBinary, assetMacosZip >> }

\* rel.CreatedAt: 2021-01-15 and 2021-03-02
CreatedAts ==
  { [year |-> y2021, month |-> m01, day |-> day15],
    [year |-> y2021, month |-> m03, day |-> day02] }

\* the releases getReleaseVersion is tried on
ResolveReleases ==
  [TagName : {v120, v130}, CreatedAt : CreatedAts, Assets : AssetLists, bin : Bins]

\* the releases GitHub lists to main
release(tag, month, day, published, pre, assets, cmd, gover) ==
  [TagName |-> tag, CreatedAt |-> [year |-> y2021, month |-> month, day |-> day],
   PublishedAt |-> published, Prerelease |-> pre, Assets |-> assets,
   bin |-> [cmd |-> cmd, gover |-> gover]]

\* v1.2.0: the binary reports itself
relGood ==
  release(v120, m01, day15, 1, FALSE, << assetSource, assetLinuxTarGz, assetMacosZip >>,
          [err |-> FALSE, out |-> banner120], [err |-> FALSE, out |-> goverOut])

\* v1.2.1: the binary reports itself as v1.2.0
relMismatch ==
  release(v121, m01, day15, 2, FALSE, << assetLinuxTarGz >>,
          [err |-> FALSE, out |-> banner120], [err |-> FALSE, out |-> goverOut])

\* v1.3.0: the binary does not run on the host, go version -m reads it
relFallback ==
  release(v130, m03, day02, 3, FALSE, << assetLinuxTarGz, assetMacosZip >>,
          [err |-> TRUE, out |-> << >>], [err |-> FALSE, out |-> goverOut])

\* v1.3.1: no asset for the host
relNoAsset ==
  release(v131, m03, day02, 4, FALSE, << assetSource >>,
          [err |-> TRUE, out |-> << >>], [err |-> TRUE, out |-> << >>])

\* a prerelease
relPre ==
  release(v1100, m03, day02, 5, TRUE, << assetLinuxTarGz >>,
          [err |-> FALSE, out |-> banner130rc], [err |-> FALSE, out |-> goverOut])

ListedReleases == {relGood, relMismatch, relFallback, relNoAsset, relPre}

\* the versions file main starts from: absent, saved by an earlier run,
\* edited by hand to hold a version without a dot, or holding a short row
noFile == [exists |-> FALSE, lines |-> << >>]

fileOf(lines) == [exists |-> TRUE, lines |-> lines]

InitFiles ==
  { noFile,
    fileOf(writeTable(<< tableRow(v120, go1155, d20210101) >>).lines),
    fileOf(<< csvJoin(tableHeader), csvJoin(<< sNightly, go1162, d20210101 >>) >>),
    fileOf(<< csvJoin(tableHeader), csvJoin(<< v130, go1162 >>) >>) }

(***************************************************************************)
(* synver.go: getReleases and the pieces of main.                          *)
(***************************************************************************)
\* the filter of getReleases: prereleases are dropped
RECURSIVE dropPrereleases(_)
dropPrereleases(rels) ==
  IF rels = << >> THEN << >>
  ELSE IF Head(rels).Prerelease THEN dropPrereleases(Tail(rels))
  ELSE << Head(rels) >> \o dropPrereleases(Tail(rels))

\* the sort of getReleases (an insertion sort, as in writeTable): a release
\* sinks while it was published after its left neighbour
RECURSIVE sinkRelease(_, _)
sinkRelease(rels, j) ==
  IF j > 1 /\ rels[j].PublishedAt > rels[j - 1].PublishedAt
  THEN sinkRelease(swap(rels, j, j - 1), j - 1)
  ELSE rels

RECURSIVE sortReleasesFrom(_, _)
sortReleasesFrom(rels, i) ==
  IF i > Len(rels) THEN rels ELSE sortReleasesFrom(sinkRelease(rels, i), i + 1)

\* func getReleases(ctx context.Context) ([]*github.RepositoryRelease, error),
\* on the releases the pages list
getReleases(pages) == sortReleasesFrom(dropPrereleases(pages), 2)

\* a plausible slip: the set is keyed by the runtime column
seenOfRuntime(tbl) == {tbl[i].Runtime : i \in 1..Len(tbl)}

\* the set seen main builds from the loaded table
seenOf(tbl) == {tbl[i].Version : i \in 1..Len(tbl)}

(***************************************************************************)
(* State.                                                                  *)
(***************************************************************************)
VARIABLES
  pc,         \* the control point of the specification that runs
  t, other,   \* merge: receiver and argument
  merged,     \* merge: the result
  rows,       \* writeTable: the table handed to it
  written,    \* writeTable: [panic, lines]
  loaded,     \* readTable: [err, rows]
  bs,         \* extractor: the archive, [format, entries]
  ext,        \* extractor: the extension of the asset's name
  bin,        \* the behaviour of the executable
  fault,      \* the I/O step that fails
  extracted,  \* extractor: its result
  rel,        \* getReleaseVersion: the release
  goos,       \* runtime.GOOS of the host
  resolved,   \* getReleaseVersion: its result
  file,       \* main: the versions file, its lines ("absent": no file)
  listing,    \* main: the releases GitHub lists, in page order
  releases,   \* main: releases
  table,      \* main: table
  seen,       \* main: seen
  idx,        \* main: the position of the loop over releases
  invoked,    \* main: the calls of getReleaseVersion made, [tag, ok] each
  start,      \* main: the table as loaded
  run         \* main: the number of the run

vars ==
  << pc, t, other, merged, rows, written, loaded, bs, ext, bin, fault,
     extracted, rel, goos, resolved, file, listing, releases, table, seen, idx,
     invoked, start, run >>

mergeVars == << t, other, merged >>
tableVars == << rows, written, loaded >>
extractVars == << bs, ext, bin, extracted >>
resolveVars == << rel, resolved >>
mainVars == << file, listing, releases, table, seen, idx, invoked, start, run >>

\* variables a specification does not use hold this value
idle == "idle"

IdleMerge == t = idle /\ other = idle /\ merged = idle
IdleTable == rows = idle /\ written = idle /\ loaded = idle
IdleExtract == bs = idle /\ ext = idle /\ bin = idle /\ extracted = idle
IdleResolve == rel = idle /\ resolved = idle
IdleMain ==
  /\ file = idle /\ listing = idle /\ releases = idle /\ table = idle
  /\ seen = idle /\ idx = idle /\ invoked = idle /\ start = idle /\ run = idle

(***************************************************************************)
(* merge on its own.                                                       *)
(***************************************************************************)
InitMerge ==
  /\ pc = "input"
  /\ t \in MergeRows /\ other \in MergeRows /\ merged = idle
  /\ IdleTable /\ IdleExtract /\ IdleResolve /\ IdleMain
  /\ fault = idle /\ goos = idle

Merge ==
  /\ pc = "input"
  /\ merged' = merge(t, other)
  /\ pc' = "merged"
  /\ UNCHANGED << t, other, tableVars, extractVars, resolveVars, mainVars, fault, goos >>

NextMerge == Merge

SpecMerge == InitMerge /\ [][NextMerge]_vars

(***************************************************************************)
(* writeTable and readTable on their own: save a table, load it back.      *)
(***************************************************************************)
InitTable ==
  /\ pc = "input"
  /\ rows \in SeqsUpTo(TableRows, MaxRows)
  /\ written = idle /\ loaded = idle
  /\ IdleMerge /\ IdleExtract /\ IdleResolve /\ IdleMain
  /\ fault = idle /\ goos = idle

Write ==
  /\ pc = "input"
  /\ written' = writeTable(rows)
  /\ pc' = "written"
  /\ UNCHANGED << rows, loaded, mergeVars, extractVars, resolveVars, mainVars, fault, goos >>

Read ==
  /\ pc = "written"
  /\ loaded' = readTable(written.lines)
  /\ pc' = "loaded"
  /\ UNCHANGED << rows, written, mergeVars, extractVars, resolveVars, mainVars, fault, goos >>

NextTable == Write \/ Read

SpecTable == InitTable /\ [][NextTable]_vars

(***************************************************************************)
(* The extractors on their own, dispatched as getReleaseVersion does.      *)
(***************************************************************************)
InitExtract ==
  /\ pc = "input"
  /\ bs \in [format : Formats, entries : DistinctSeqs(EntryNames, MaxEntries)]
  /\ ext \in {"zip", "other"}
  /\ bin \in {b \in Bins : b.cmd.out \in {<< >>, banner120}
                           /\ b.gover.out \in {<< >>, goverOut}}
  /\ fault \in ExtractFaults
  /\ extracted = idle
  /\ IdleMerge /\ IdleTable /\ IdleResolve /\ IdleMain
  /\ goos = idle

ExtractZip ==
  /\ pc = "input" /\ ext = "zip"
  /\ extracted' = getReleaseVersionZip(bs, bin, fault)
  /\ pc' = "extracted"
  /\ UNCHANGED << bs, ext, bin, fault, mergeVars, tableVars, resolveVars, mainVars, goos >>

ExtractTarGz ==
  /\ pc = "input" /\ ext # "zip"
  /\ extracted' = getReleaseVersionTarGz(bs, bin, fault)
  /\ pc' = "extracted"
  /\ UNCHANGED << bs, ext, bin, fault, mergeVars, tableVars, resolveVars, mainVars, goos >>

NextExtract == ExtractZip \/ ExtractTarGz

SpecExtract == InitExtract /\ [][NextExtract]_vars

(***************************************************************************)
(* getReleaseVersion on its own.                                           *)
(***************************************************************************)
InitResolve ==
  /\ pc = "input"
  /\ rel \in ResolveReleases
  /\ goos \in {sLinux, sDarwin}
  /\ fault \in Faults
  /\ resolved = idle
  /\ IdleMerge /\ IdleTable /\ IdleExtract /\ IdleMain

Resolve ==
  /\ pc = "input"
  /\ resolved' = getReleaseVersion(rel, goos, fault)
  /\ pc' = "resolved"
  /\ UNCHANGED << rel, goos, fault, mergeVars, tableVars, extractVars, mainVars >>

NextResolve == Resolve

SpecResolve == InitResolve /\ [][NextResolve]_vars

(***************************************************************************)
(* main, run after run on the same host against the same listing.          *)
(***************************************************************************)
Init ==
  /\ pc = "start"
  /\ file \in InitFiles
  /\ listing \in SeqsUpTo(ListedReleases, MaxReleases)
  /\ goos = sLinux
  /\ run = 1
  /\ releases = << >> /\ table = << >> /\ seen = {} /\ idx = 1
  /\ invoked = << >> /\ start = << >>
  /\ fault = idle
  /\ IdleMerge /\ IdleTable /\ IdleExtract /\ IdleResolve

\* main, lines 26-54: list the releases, load the table, build seen
Load ==
  /\ pc = "start"
  /\ ~file.exists \/ readTable(file.lines).err = "nil"
  /\ releases' = getReleases(listing)
  /\ table' = (IF file.exists THEN readTable(file.lines).rows ELSE << >>)
  /\ start' = table'
  /\ seen' = seenOf(table')
  /\ idx' = 1
  /\ invoked' = << >>
  /\ pc' = "loop"
  /\ UNCHANGED << file, listing, run, goos, fault, mergeVars, tableVars, extractVars, resolveVars >>

\* main, lines 32-35 and 39-48: log.Fatalln when GitHub cannot be listed or
\* the versions file cannot be read
LoadFatal ==
  /\ pc = "start"
  /\ \/ TRUE
     \/ file.exists /\ readTable(file.lines).err # "nil"
  /\ pc' = "fatal"
  /\ UNCHANGED << mainVars, goos, fault, mergeVars, tableVars, extractVars, resolveVars >>

\* main, lines 58-61: a release whose tag is in seen is skipped
Skip ==
  /\ pc = "loop" /\ idx <= Len(releases)
  /\ releases[idx].TagName \in seen
  /\ idx' = idx + 1
  /\ UNCHANGED << pc, file, listing, releases, table, seen, invoked, start, run,
                  goos, fault, mergeVars, tableVars, extractVars, resolveVars >>

\* main, lines 62-67: the release is resolved; its row is appended unless
\* the call failed
ResolveNext ==
  /\ pc = "loop" /\ idx <= Len(releases)
  /\ releases[idx].TagName \notin seen
  /\ \E f \in Faults :
       \E r \in {getReleaseVersion(releases[idx], goos, f)} :
           /\ invoked' = Append(invoked, [tag |-> releases[idx].TagName,
                                          ok |-> r.err = "nil"])
           /\ table' = (IF r.err = "nil" THEN Append(table, r.row) ELSE table)
  /\ idx' = idx + 1
  /\ UNCHANGED << pc, file, listing, releases, seen, start, run,
                  goos, fault, mergeVars, tableVars, extractVars, resolveVars >>

\* main, lines 70-80: the file is created (truncated) and the table written;
\* a panic of writeTable ends the process with the truncated file
Save ==
  /\ pc = "loop" /\ idx > Len(releases)
  /\ LET w == writeTable(table)
     IN  /\ file' = fileOf(w.lines)
         /\ pc' = (IF w.panic THEN "crashed" ELSE "done")
  /\ UNCHANGED << listing, releases, table, seen, idx, invoked, start, run,
                  goos, fault, mergeVars, tableVars, extractVars, resolveVars >>

\* main, lines 71-74: log.Fatalln when the file cannot be created
SaveFatal ==
  /\ pc = "loop" /\ idx > Len(releases)
  /\ pc' = "fatal"
  /\ UNCHANGED << mainVars, goos, fault, mergeVars, tableVars, extractVars, resolveVars >>

\* the tool is run again
Rerun ==
  /\ pc \in {"done", "crashed"}
  /\ run < MaxRuns
  /\ run' = run + 1
  /\ pc' = "start"
  /\ releases' = << >> /\ table' = << >> /\ seen' = {} /\ idx' = 1
  /\ invoked' = << >> /\ start' = << >>
  /\ UNCHANGED << file, listing, goos, fault, mergeVars, tableVars, extractVars, resolveVars >>

Next == Load \/ LoadFatal \/ Skip \/ ResolveNext \/ Save \/ SaveFatal \/ Rerun

Spec == Init /\ [][Next]_vars

(***************************************************************************)
(* Properties.                                                             *)
(***************************************************************************)
\* the version keys of a table
Versions(tbl) == {tbl[i].Version : i \in 1..Len(tbl)}

\* no two rows of the table share a version
UniqueVersions(tbl) ==
  \A i, j \in 1..Len(tbl) : i # j => tbl[i].Version # tbl[j].Version

\* the rows of a table, as a set
RowSet(tbl) == {tbl[i] : i \in 1..Len(tbl)}

\* C2, as the specification states it: each field of merge(a, b) is a's
\* field if that is non-empty, and b's field otherwise.
C2_ReceiverWins ==
  pc = "merged" =>
    /\ merged.Version = (IF t.Version # << >> THEN t.Version ELSE other.Version)
    /\ merged.Runtime = (IF t.Runtime # << >> THEN t.Runtime ELSE other.Runtime)
    /\ merged.Date = (IF t.Date # << >> THEN t.Date ELSE other.Date)

\* C2, as the code has it: each field of a.merge(b) is b's field if that is
\* non-empty, and a's field otherwise; a field populated in a or in b is
\* populated in the result.
C2_ArgumentWins ==
  pc = "merged" =>
    /\ merged.Version = (IF other.Version # << >> THEN other.Version ELSE t.Version)
    /\ merged.Runtime = (IF other.Runtime # << >> THEN other.Runtime ELSE t.Runtime)
    /\ merged.Date = (IF other.Date # << >> THEN other.Date ELSE t.Date)
    /\ (t.Version # << >> \/ other.Version # << >>) => merged.Version # << >>
    /\ (t.Runtime # << >> \/ other.Runtime # << >>) => merged.Runtime # << >>
    /\ (t.Date # << >> \/ other.Date # << >>) => merged.Date # << >>

\* C2: two rows that both hold a version, different ones, have been merged
\* and the result holds the argument's.
C2_Conflict ==
  /\ pc = "merged"
  /\ t.Version # << >> /\ other.Version # << >> /\ t.Version # other.Version
  /\ merged.Version = other.Version
  /\ t.Runtime # << >> /\ other.Runtime = << >> /\ merged.Runtime = t.Runtime

\* C3, as the specification states it: when getReleaseVersion succeeds the
\* seed takes precedence, so the row's version is the release tag and its
\* date is the seed's date, whatever the probe reported.
C3_SeedWins ==
  pc = "resolved" /\ resolved.err = "nil" =>
    /\ seedRow(rel).Version # << >> => resolved.row.Version = rel.TagName
    /\ seedRow(rel).Date # << >> => resolved.row.Date = seedRow(rel).Date

\* C3, as the code has it: when getReleaseVersion succeeds the probe takes
\* precedence, so each field of the row is the probe's when the probe
\* reported one and the seed's (tag, formatted creation date, no runtime)
\* only when the probe left it empty.
C3_ProbeWins ==
  pc = "resolved" /\ resolved.err = "nil" =>
    /\ resolved.row.Version =
         (IF resolved.probe.Version # << >> THEN resolved.probe.Version
          ELSE rel.TagName)
    /\ resolved.row.Runtime = resolved.probe.Runtime
    /\ resolved.row.Date =
         (IF resolved.probe.Date # << >> THEN resolved.probe.Date
          ELSE FormatCreatedAt(rel.CreatedAt))

\* C3: a release has been resolved whose binary reports another version and
\* another date than the seed holds, and the row holds the binary's.
C3_ProbeOverridesSeed ==
  /\ pc = "resolved" /\ resolved.err = "nil"
  /\ resolved.probe.Version # << >> /\ resolved.probe.Version # rel.TagName
  /\ resolved.probe.Date # << >> /\ resolved.probe.Date # seedRow(rel).Date
  /\ resolved.row.Version = resolved.probe.Version
  /\ resolved.row.Date = resolved.probe.Date

\* C6: the probe runs the self-report first and go version -m only when the
\* self-report failed, and returns the result of one of them alone; when
\* the self-report fails and go version -m succeeds, the probe's record
\* holds a runtime and neither version nor date, and getReleaseVersion
\* returns a complete row whose version and date are the seed's.
C6_ProbeFallback ==
  pc = "resolved" /\ resolved.ran # << >> =>
    /\ resolved.ran[1] = "command"
    /\ resolved.ran = << "command", "go" >>
         <=> getVersionFromCommand(rel.bin).err # "nil"
    /\ resolved.ran = << "command" >>
         => /\ resolved.err = "nil"
            /\ resolved.probe = getVersionFromCommand(rel.bin).row
    /\ resolved.ran = << "command", "go" >>
         => /\ resolved.err = getVersionFromGo(rel.bin).err
            /\ resolved.probe = getVersionFromGo(rel.bin).row
    /\ resolved.ran = << "command", "go" >> /\ resolved.err = "nil"
         => /\ resolved.probe.Runtime # << >>
            /\ resolved.probe.Version = << >> /\ resolved.probe.Date = << >>
            /\ resolved.row.Version = rel.TagName
            /\ resolved.row.Date = FormatCreatedAt(rel.CreatedAt)
            /\ resolved.row.Runtime = resolved.probe.Runtime
            /\ resolved.row.Version # << >> /\ resolved.row.Date # << >>

\* C6: a release has been resolved whose binary does not report itself
\* although it would be readable by go version -m, and the row holds the
\* tag, the runtime go version -m found and the seed's date.
C6_FellBack ==
  /\ pc = "resolved" /\ resolved.err = "nil"
  /\ rel.bin.cmd.err /\ ~rel.bin.gover.err
  /\ resolved.ran = << "command", "go" >>
  /\ resolved.row = tableRow(rel.TagName, go1162, FormatCreatedAt(rel.CreatedAt))

\* C5, as the specification states it: when an extractor returns, a
\* temporary file the probe created no longer exists.
C5_TempFileRemoved ==
  pc = "extracted" /\ extracted.created => ~extracted.left

\* a zip entry the scan accepts: named syncthing at the root of the archive
\* or in a directory of the root
Eligible(name) ==
  \/ name = sSyncthing
  \/ /\ Len(name) > Len(sSyncthing) + 1
     /\ SubSeq(name, Len(name) - Len(sSyncthing), Len(name)) = << "/" >> \o sSyncthing
     /\ Count(name, "/") = 1

\* the entries of the archive that are named syncthing in some directory
Nested(entries) ==
  {i \in 1..Len(entries) :
     /\ Len(entries[i]) > Len(sSyncthing)
     /\ SubSeq(entries[i], Len(entries[i]) - Len(sSyncthing), Len(entries[i]))
          = << "/" >> \o sSyncthing}

C7_RoundTrip ==
  pc = "loaded" /\ UniqueVersions(rows) =>
    /\ ~written.panic
    /\ loaded.err = "nil"
    /\ RowSet(loaded.rows) = RowSet(rows)

\* the fields of the i-th data line written, as written
WrittenFields(i) == csvSplit(written.lines[i + 1])

\* the i-th data row written, without emphasis
WrittenRow(i) ==
  tableRow(Trim(WrittenFields(i)[1], "*"), Trim(WrittenFields(i)[2], "*"),
           Trim(WrittenFields(i)[3], "*"))

\* the number of data lines written
NWritten == Len(written.lines) - 1

\* a comes no later than b in the order of the file: a later date, or the
\* same date and a version that is not smaller
NotAfter(a, b) ==
  \/ StrGreater(a.Date, b.Date)
  \/ a.Date = b.Date /\ ~StrGreater(b.Version, a.Version)

\* the table with its rows rearranged by p
Permuted(tbl, p) == [i \in 1..Len(tbl) |-> tbl[p[i]]]

\* C8: what save writes is the header and the rows of the table, each once,
\* ordered by date descending and by version descending among equal dates;
\* every rearrangement of a table with unique versions is written the same.
C8_Sorted ==
  pc = "written" =>
    /\ ~written.panic =>
         /\ written.lines[1] = csvJoin(tableHeader)
         /\ NWritten = Len(rows)
         /\ \A i, j \in 1..NWritten : i < j => NotAfter(WrittenRow(i), WrittenRow(j))
         /\ \A r \in RowSet(rows) :
              Cardinality({i \in 1..Len(rows) : rows[i] = r})
                = Cardinality({i \in 1..NWritten : WrittenRow(i) = r})
    /\ UniqueVersions(rows) =>
         \A p \in Permutations(1..Len(rows)) : writeTable(Permuted(rows, p)) = written

\* C8: a table given oldest first, with two rows of the same date, has been
\* written newest first and, of the two, the greater version first.
C8_Reordered ==
  /\ pc = "written" /\ ~written.panic
  /\ rows = << tableRow(v120, go1155, d20210101), tableRow(v121, go12, d20210101),
               tableRow(v130, go1162, d20210301) >>
  /\ WrittenRow(1).Version = v130
  /\ WrittenRow(2).Version = v121
  /\ WrittenRow(3).Version = v120

\* whether a field was written with the emphasis marker
Emphasized(f) ==
  /\ Len(f) >= 4
  /\ SubSeq(f, 1, 2) = << "*", "*" >>
  /\ SubSeq(f, Len(f) - 1, Len(f)) = << "*", "*" >>

\* a string without its final dot-delimited component
StripLast(x) ==
  SubSeq(x, 1, (CHOOSE k \in 1..Len(x) :
                  x[k] = "." /\ \A m \in (k + 1)..Len(x) : x[m] # ".") - 1)

\* the minor identifier of a version
MinorVersion(v) == StripLast(v)

\* the minor identifier of a runtime: a runtime with one dot is its own
MinorRuntime(r) ==
  IF Cardinality({k \in 1..Len(r) : r[k] = "."}) = 1 THEN r ELSE StripLast(r)

\* C9: in what save writes, the version of a row is emphasized exactly when
\* the row is the oldest or its minor version differs from that of the next
\* older row, and its runtime exactly when the row is the oldest or its
\* minor runtime differs from that of the next older row; nothing else is
\* changed in a row.
C9_Emphasis ==
  pc = "written" /\ ~written.panic =>
    \A i \in 1..NWritten :
      /\ Emphasized(WrittenFields(i)[1])
           <=> \/ i = NWritten
               \/ MinorVersion(WrittenRow(i).Version)
                    # MinorVersion(WrittenRow(i + 1).Version)
      /\ Emphasized(WrittenFields(i)[2])
           <=> \/ i = NWritten
               \/ MinorRuntime(WrittenRow(i).Runtime)
                    # MinorRuntime(WrittenRow(i + 1).Runtime)
      /\ ~Emphasized(WrittenFields(i)[3])
      /\ WrittenFields(i)[1] \in {WrittenRow(i).Version, Bold(WrittenRow(i).Version)}
      /\ WrittenFields(i)[2] \in {WrittenRow(i).Runtime, Bold(WrittenRow(i).Runtime)}

\* C9: v1.2.0 of 2021-01-01, v1.2.1 of 2021-02-01 and v1.3.0 of 2021-03-01
\* have been written, v1.3.0 and v1.2.0 with an emphasized version and
\* v1.2.1 without.
C9_Example ==
  /\ pc = "written" /\ ~written.panic
  /\ rows = << tableRow(v120, go1155, d20210101), tableRow(v121, go1158, d20210201),
               tableRow(v130, go1162, d20210301) >>
  /\ WrittenFields(1) = << Bold(v130), Bold(go1162), d20210301 >>
  /\ WrittenFields(2) = << v121, go1158, d20210201 >>
  /\ WrittenFields(3) = << Bold(v120), Bold(go1155), d20210101 >>

\* C1, as the specification states it: a run adds no row whose version is
\* already in the table, so a table loaded with unique versions has unique
\* versions while the run appends to it and when it is saved.
C1_NoDuplicateVersion ==
  pc \in {"loop", "done"} /\ UniqueVersions(start) => UniqueVersions(table)

\* the tags of the first k candidates that are not versions of the table
\* loaded at start
Unloaded(k) ==
  LET NotLoaded(r) == r.TagName \notin Versions(start)
      todo == SelectSeq(SubSeq(releases, 1, k), NotLoaded)
  IN  [i \in 1..Len(todo) |-> todo[i].TagName]

\* the rows a run has appended to the table it loaded
Appended == SubSeq(table, Len(start) + 1, Len(table))

\* C4: getReleaseVersion has been called, in order, for exactly the
\* candidates passed so far whose tag is not a version of the table loaded
\* at start; each call that failed left the table as it was and each call
\* that succeeded appended one row; the run leaves the loop only after the
\* last candidate, whatever calls failed, and then writes the table (a save
\* that does not complete has met a row writeTable cannot slice, not a
\* failed call).
C4_ResolvedExactlyUnloaded ==
  pc \in {"loop", "done", "crashed"} =>
    /\ [i \in 1..Len(invoked) |-> invoked[i].tag] = Unloaded(idx - 1)
    /\ SubSeq(table, 1, Len(start)) = start
    /\ Len(Appended) = Cardinality({i \in 1..Len(invoked) : invoked[i].ok})
    /\ pc \in {"done", "crashed"} => idx = Len(releases) + 1
    /\ pc = "done" =>
         /\ file.exists
         /\ readTable(file.lines).err = "nil"
         /\ RowSet(readTable(file.lines).rows) = RowSet(table)
    /\ pc = "crashed" => \E i \in 1..Len(table) : slicePanics(table[i])

\* C4: a run has seen its first call of getReleaseVersion fail and its
\* second succeed, and has written the table, one row longer than loaded.
C4_ContinuedAfterFailure ==
  /\ pc = "done"
  /\ Len(invoked) = 2 /\ ~invoked[1].ok /\ invoked[2].ok
  /\ Len(table) = Len(start) + 1
  /\ Len(file.lines) = Len(table) + 1

=============================================================================
